---------------------------- MODULE Spec2Model ----------------------------
(***************************************************************************)
(* Model of src/bin/election2016.rs: the candidate loader                  *)
(* (parse_candidates_file), the ballot preference decoder                  *)
(* (pref_string_to_ballot, ballot_above_the_line, ballot_below_the_line)   *)
(* and the ballot stream adapter (parse_single_ballot,                     *)
(* parse_preferences_file!).                                               *)
(*                                                                         *)
(* Strings are sequences of one-character strings, so that split(',') and  *)
(* parse::<u32>() are computed character by character.  A Rust panic       *)
(* (index out of bounds, Vec::split_off past the end) is the outcome       *)
(* [kind |-> "Panic"].  The iteration order of a std HashMap is            *)
(* unspecified, so a result that depends on it is a set of outcomes.       *)
(***************************************************************************)
EXTENDS Integers, Sequences, FiniteSets

VARIABLES
    pref_string,   \* decoder input: the preferences field, a sequence of characters
    groups,        \* decoder input: &[Group], each [candidate_ids |-> <<...>>]
    candidates,    \* decoder input: &[CandidateId], the state's below-the-line ids
    calls,         \* decoder: the outcomes of the calls made so far on these inputs
    rows,          \* loader input: the candidate file's rows
    row_idx,       \* loader: number of rows consumed by the for loop
    result,        \* loader: the Vec<Candidate> built so far
    load_pc,       \* loader: "loop", "ok" (returned Ok(result)), "err" (try! returned)
    records,       \* stream input: the reader's raw rows (csv::Result<PrefRow>)
    outputs,       \* stream: the IOBallot items produced so far
    stream_pc      \* stream: "iter", "end" (iterator exhausted), "panic" (unwound)

decodeVars == <<pref_string, groups, candidates, calls>>
loadVars == <<rows, row_idx, result, load_pc>>
streamVars == <<records, outputs, stream_pc>>
vars == <<pref_string, groups, candidates, calls, rows, row_idx, result, load_pc,
          records, outputs, stream_pc>>

(***************************************************************************)
(* Bounds of the model.                                                    *)
(***************************************************************************)
MaxTokens == 4
MaxGroups == 2
MaxCands == 2
MaxCalls == 2
MaxRows == 4
MaxRecords == 3

(***************************************************************************)
(* Results: Result<Vec<CandidateId>, BallotParseErr>, or a panic.          *)
(***************************************************************************)
Ok(prefs) == [kind |-> "Ok", prefs |-> prefs, msg |-> ""]
InvalidBallot(msg) == [kind |-> "Err", prefs |-> <<>>, msg |-> msg]
InputError == [kind |-> "Err", prefs |-> <<>>, msg |-> "InputError"]
Panic == [kind |-> "Panic", prefs |-> <<>>, msg |-> ""]

(***************************************************************************)
(* str::split(','): the pieces between commas; "" splits to one empty      *)
(* piece, a trailing comma gives a trailing empty piece.                   *)
(***************************************************************************)
RECURSIVE SplitFrom(_, _)
SplitFrom(s, cur) ==
    IF s = <<>> THEN <<cur>>
    ELSE IF Head(s) = "," THEN <<cur>> \o SplitFrom(Tail(s), <<>>)
    ELSE SplitFrom(Tail(s), Append(cur, Head(s)))

split(s) == SplitFrom(s, <<>>)

(***************************************************************************)
(* str::parse::<u32>(): -1 stands for Err(ParseIntError).  The empty       *)
(* string and any non-digit character are errors; leading zeros are        *)
(* accepted.  Tokens of the model have at most two digits, far from the    *)
(* u32 range, so the overflow error is never produced here.                *)
(***************************************************************************)
DigitChars == {"0", "1", "2", "3", "4", "5", "6", "7", "8", "9"}

DigitValue(c) ==
    CASE c = "0" -> 0 [] c = "1" -> 1 [] c = "2" -> 2 [] c = "3" -> 3
      [] c = "4" -> 4 [] c = "5" -> 5 [] c = "6" -> 6 [] c = "7" -> 7
      [] c = "8" -> 8 [] c = "9" -> 9

RECURSIVE ParseDigits(_, _)
ParseDigits(s, acc) ==
    IF s = <<>> THEN acc
    ELSE IF Head(s) \notin DigitChars THEN -1
    ELSE ParseDigits(Tail(s), acc * 10 + DigitValue(Head(s)))

\* Mutant of parse_u32: a token that does not parse counts as 0 (unwrap_or(0)).
parse_u32_or_zero(s) ==
    IF s = <<>> THEN -1
    ELSE IF ParseDigits(s, 0) = -1 THEN 0 ELSE ParseDigits(s, 0)

parse_u32(s) == IF s = <<>> THEN -1 ELSE ParseDigits(s, 0)

(***************************************************************************)
(* HashMap::insert on a map held as a function: a present key is           *)
(* overwritten.                                                            *)
(***************************************************************************)
EmptyMap == [k \in {} |-> 0]

Insert(m, k, v) == [x \in (DOMAIN m) \cup {k} |-> IF x = k THEN v ELSE m[x]]

(***************************************************************************)
(* aus_senate::util::pref_map_to_vec (not in this source file): the keys   *)
(* of a HashMap<CandidateId, u32> ordered by ascending preference number.  *)
(* Keys with equal numbers come out in the map's iteration order, which is *)
(* unspecified: every order of them is a possible result.                  *)
(***************************************************************************)
RECURSIVE pref_map_to_vec(_)
pref_map_to_vec(m) ==
    IF DOMAIN m = {} THEN {<<>>}
    ELSE LET least == {c \in DOMAIN m : \A d \in DOMAIN m : m[c] <= m[d]}
             Rest(c) == [x \in (DOMAIN m) \ {c} |-> m[x]]
         IN  UNION {{<<c>> \o t : t \in pref_map_to_vec(Rest(c))} : c \in least}

(***************************************************************************)
(* ballot_below_the_line, lines 85-97.  BelowLoop is the for loop from     *)
(* 1-based position idx on: an empty token is skipped, a token that does   *)
(* not parse returns the error, candidates[idx] panics when idx is past    *)
(* the slice.  The map is keyed by candidate, its value the number.        *)
(***************************************************************************)
\* Mutant of BelowInsert: the token's position is stored, not its number.
BelowInsertPosition(pref_map, candidates_, idx, pref_int) ==
    Insert(pref_map, candidates_[idx], idx)

BelowInsert(pref_map, candidates_, idx, pref_int) ==
    Insert(pref_map, candidates_[idx], pref_int)

RECURSIVE BelowLoop(_, _, _, _)
BelowLoop(raw_prefs, candidates_, idx, pref_map) ==
    IF idx > Len(raw_prefs) THEN {Ok(p) : p \in pref_map_to_vec(pref_map)}
    ELSE IF raw_prefs[idx] = <<>> THEN BelowLoop(raw_prefs, candidates_, idx + 1, pref_map)
    ELSE IF parse_u32(raw_prefs[idx]) = -1 THEN {InvalidBallot("Pref not an int")}
    ELSE IF idx > Len(candidates_) THEN {Panic}
    ELSE BelowLoop(raw_prefs, candidates_, idx + 1,
                   BelowInsert(pref_map, candidates_, idx, parse_u32(raw_prefs[idx])))

ballot_below_the_line(raw_prefs, candidates_) ==
    BelowLoop(raw_prefs, candidates_, 1, EmptyMap)

(***************************************************************************)
(* ballot_above_the_line, lines 100-118.  The map is keyed by preference   *)
(* number, its value the group's candidate list; it is flattened, sorted   *)
(* by key (keys are distinct, so the order is determined) and the lists    *)
(* are concatenated.  raw_prefs has exactly groups.len() tokens here, so   *)
(* groups[group_idx] is always in range.                                   *)
(***************************************************************************)
\* Mutant of AboveInsert: a number already in the map keeps its first group
\* (entry().or_insert()).
AboveInsertKeepFirst(pref_map, groups_, group_idx, pref_int) ==
    IF pref_int \in DOMAIN pref_map THEN pref_map
    ELSE Insert(pref_map, pref_int, groups_[group_idx].candidate_ids)

AboveInsert(pref_map, groups_, group_idx, pref_int) ==
    Insert(pref_map, pref_int, groups_[group_idx].candidate_ids)

RECURSIVE AboveFlatten(_)
AboveFlatten(pref_map) ==
    IF DOMAIN pref_map = {} THEN <<>>
    ELSE LET pref == CHOOSE p \in DOMAIN pref_map : \A q \in DOMAIN pref_map : p <= q
         IN  pref_map[pref] \o
             AboveFlatten([x \in (DOMAIN pref_map) \ {pref} |-> pref_map[x]])

RECURSIVE AboveLoop(_, _, _, _)
AboveLoop(raw_prefs, groups_, group_idx, pref_map) ==
    IF group_idx > Len(raw_prefs) THEN {Ok(AboveFlatten(pref_map))}
    ELSE IF raw_prefs[group_idx] = <<>> THEN AboveLoop(raw_prefs, groups_, group_idx + 1, pref_map)
    ELSE IF parse_u32(raw_prefs[group_idx]) = -1 THEN {InvalidBallot("Pref not an int")}
    ELSE IF group_idx > Len(groups_) THEN {Panic}
    ELSE AboveLoop(raw_prefs, groups_, group_idx + 1,
                   AboveInsert(pref_map, groups_, group_idx, parse_u32(raw_prefs[group_idx])))

ballot_above_the_line(raw_prefs, groups_) ==
    AboveLoop(raw_prefs, groups_, 1, EmptyMap)

(***************************************************************************)
(* pref_string_to_ballot, lines 122-140.  Vec::split_off(at) panics when   *)
(* at > len.  Dispatch names the arm of the match that is taken.           *)
(***************************************************************************)
is_valid(prefs) == \E i \in 1..Len(prefs) : prefs[i] # <<>>

Dispatch(pref_string_, groups_) ==
    LET tokens == split(pref_string_)
        n == Len(groups_)
    IN  IF n > Len(tokens) THEN "split_off"
        ELSE LET above_the_line == SubSeq(tokens, 1, n)
                 below_the_line == SubSeq(tokens, n + 1, Len(tokens))
             IN  CASE is_valid(above_the_line) /\ ~is_valid(below_the_line) -> "above"
                   [] ~is_valid(above_the_line) /\ is_valid(below_the_line) -> "below"
                   [] is_valid(above_the_line) /\ is_valid(below_the_line) -> "both"
                   [] OTHER -> "neither"

pref_string_to_ballot(pref_string_, groups_, candidates_) ==
    LET tokens == split(pref_string_)
        n == Len(groups_)
        above_the_line == SubSeq(tokens, 1, n)
        below_the_line == SubSeq(tokens, n + 1, Len(tokens))
        arm == Dispatch(pref_string_, groups_)
    IN  CASE arm = "split_off" -> {Panic}
          [] arm = "above" -> ballot_above_the_line(above_the_line, groups_)
          [] arm = "below" -> ballot_below_the_line(below_the_line, candidates_)
          [] arm = "both" -> {InvalidBallot("both valid")}
          [] arm = "neither" -> {InvalidBallot("neither valid")}

(***************************************************************************)
(* parse_candidates_file, lines 46-66.  A row is what the csv reader       *)
(* decodes: [ok |-> FALSE] for a row that does not fit CandidateRow, else  *)
(* its nom_ty.  enumerate() numbers every row the reader yields, from 0,   *)
(* and the number of the row is the candidate's id.  LoadStep is one       *)
(* iteration of the loop body for the row numbered id.                     *)
(***************************************************************************)
Candidate(id) == [id |-> id]

\* Mutant of LoadStep: the id is the number of rows accepted so far.
LoadStepCountingAccepted(result_, id, row) ==
    IF row.nom_ty # "S" THEN result_ ELSE Append(result_, Candidate(Len(result_)))

LoadStep(result_, id, row) ==
    IF row.nom_ty # "S" THEN result_ ELSE Append(result_, Candidate(id))

LoadRow ==
    /\ load_pc = "loop"
    /\ row_idx < Len(rows)
    /\ rows[row_idx + 1].ok
    /\ result' = LoadStep(result, row_idx, rows[row_idx + 1])
    /\ row_idx' = row_idx + 1
    /\ UNCHANGED <<rows, load_pc>>

LoadRowErr ==
    /\ load_pc = "loop"
    /\ row_idx < Len(rows)
    /\ ~rows[row_idx + 1].ok
    /\ load_pc' = "err"
    /\ row_idx' = row_idx + 1
    /\ UNCHANGED <<rows, result>>

LoadReturn ==
    /\ load_pc = "loop"
    /\ row_idx = Len(rows)
    /\ load_pc' = "ok"
    /\ UNCHANGED <<rows, row_idx, result>>

(***************************************************************************)
(* The decoder called on fixed inputs: each call appends its outcome and   *)
(* the arm of the match it took.  The inputs are borrowed immutably.       *)
(***************************************************************************)
Decode ==
    /\ Len(calls) < MaxCalls
    /\ \E out \in pref_string_to_ballot(pref_string, groups, candidates) :
           calls' = Append(calls, [arm |-> Dispatch(pref_string, groups), out |-> out])
    /\ UNCHANGED <<pref_string, groups, candidates>>

(***************************************************************************)
(* parse_single_ballot, lines 142-151, under the lazy map of               *)
(* parse_preferences_file!, lines 154-160: the consumer pulls one item at  *)
(* a time.  A reader error becomes InputError without a call of the        *)
(* decoder; MultiBallot::single wraps the decoded list and keeps it.  A    *)
(* panic in the decoder unwinds through the iterator and its consumer.     *)
(***************************************************************************)
parse_single_ballot(raw_row, groups_, candidates_) ==
    IF raw_row.ok
    THEN pref_string_to_ballot(raw_row.preferences, groups_, candidates_)
    ELSE {InputError}

StreamNext ==
    /\ stream_pc = "iter"
    /\ Len(outputs) < Len(records)
    /\ \E item \in parse_single_ballot(records[Len(outputs) + 1], groups, candidates) :
           /\ item.kind # "Panic"
           /\ outputs' = Append(outputs, item)
    /\ UNCHANGED <<records, stream_pc, groups, candidates>>

StreamPanic ==
    /\ stream_pc = "iter"
    /\ Len(outputs) < Len(records)
    /\ Panic \in parse_single_ballot(records[Len(outputs) + 1], groups, candidates)
    /\ stream_pc' = "panic"
    /\ UNCHANGED <<records, outputs, groups, candidates>>

StreamEnd ==
    /\ stream_pc = "iter"
    /\ Len(outputs) = Len(records)
    /\ stream_pc' = "end"
    /\ UNCHANGED <<records, outputs, groups, candidates>>

(***************************************************************************)
(* Inputs.                                                                 *)
(***************************************************************************)
RECURSIVE Join(_)
Join(tokens) ==
    IF Len(tokens) = 1 THEN tokens[1]
    ELSE tokens[1] \o <<",">> \o Join(Tail(tokens))

TokenSet == {<<>>, <<"1">>, <<"2">>, <<"0", "1">>, <<"x">>}

PrefStrings == {Join(ts) : ts \in UNION {[1..n -> TokenSet] : n \in 1..MaxTokens}}

\* The group at position 1 is {1, 2}, the group at position g > 1 is {g + 1}.
GroupAt(g) == [candidate_ids |-> IF g = 1 THEN <<1, 2>> ELSE <<g + 1>>]

GroupLists == {[g \in 1..n |-> GroupAt(g)] : n \in 0..MaxGroups}

CandidateLists == {[i \in 1..n |-> 9 + i] : n \in 0..MaxCands}

RowPool == {[ok |-> TRUE, nom_ty |-> "S"], [ok |-> TRUE, nom_ty |-> "H"],
            [ok |-> FALSE, nom_ty |-> ""]}

RecordPool ==
    {[ok |-> FALSE, preferences |-> <<>>]} \cup
    {[ok |-> TRUE, preferences |-> Join(ts)] :
        ts \in {<< <<>> >>,
                << <<"1">>, <<>>, <<>>, <<>> >>,
                << <<>>, <<>>, <<"2">>, <<"1">> >>,
                << <<"1">>, <<>>, <<"1">>, <<>> >>,
                << <<>>, <<"x">>, <<>>, <<>> >>,
                << <<>>, <<>>, <<"1">>, <<"0", "1">> >>,
                << <<>>, <<>>, <<>>, <<>>, <<"1">> >>}}

DecodeIdle ==
    /\ pref_string = <<>>
    /\ groups = <<>>
    /\ candidates = <<>>
    /\ calls = <<>>

LoadIdle ==
    /\ rows = <<>>
    /\ row_idx = 0
    /\ result = <<>>
    /\ load_pc = "ok"

StreamIdle ==
    /\ records = <<>>
    /\ outputs = <<>>
    /\ stream_pc = "end"

(***************************************************************************)
(* SpecDecode: the decoder on every input within the bounds.               *)
(***************************************************************************)
InitDecode ==
    /\ pref_string \in PrefStrings
    /\ groups \in GroupLists
    /\ candidates \in CandidateLists
    /\ calls = <<>>
    /\ LoadIdle
    /\ StreamIdle

NextDecode == Decode /\ UNCHANGED <<loadVars, streamVars>>

SpecDecode == InitDecode /\ [][NextDecode]_vars

(***************************************************************************)
(* SpecLoad: the candidate loader on every file within the bounds.         *)
(***************************************************************************)
InitLoad ==
    /\ rows \in UNION {[1..n -> RowPool] : n \in 0..MaxRows}
    /\ row_idx = 0
    /\ result = <<>>
    /\ load_pc = "loop"
    /\ DecodeIdle
    /\ StreamIdle

NextLoad ==
    \/ LoadRow /\ UNCHANGED <<decodeVars, streamVars>>
    \/ LoadRowErr /\ UNCHANGED <<decodeVars, streamVars>>
    \/ LoadReturn /\ UNCHANGED <<decodeVars, streamVars>>

SpecLoad == InitLoad /\ [][NextLoad]_vars

(***************************************************************************)
(* SpecStream: the stream adapter over every record sequence within the    *)
(* bounds, for the groups [G1 = {1, 2}, G2 = {3}] and candidates [10, 11]. *)
(***************************************************************************)
InitStream ==
    /\ records \in UNION {[1..n -> RecordPool] : n \in 0..MaxRecords}
    /\ outputs = <<>>
    /\ stream_pc = "iter"
    /\ groups = <<GroupAt(1), GroupAt(2)>>
    /\ candidates = <<10, 11>>
    /\ pref_string = <<>>
    /\ calls = <<>>
    /\ LoadIdle

NextStream ==
    \/ StreamNext /\ UNCHANGED <<pref_string, calls, loadVars>>
    \/ StreamPanic /\ UNCHANGED <<pref_string, calls, loadVars>>
    \/ StreamEnd /\ UNCHANGED <<pref_string, calls, loadVars>>

SpecStream == InitStream /\ [][NextStream]_vars

(***************************************************************************)
(* Vocabulary of the properties, read off the decoder's inputs.            *)
(***************************************************************************)
Tokens == split(pref_string)

NGroups == Len(groups)

AboveTokens ==
    SubSeq(Tokens, 1, IF NGroups <= Len(Tokens) THEN NGroups ELSE Len(Tokens))

BelowTokens == SubSeq(Tokens, NGroups + 1, Len(Tokens))

Marked(section) == \E i \in 1..Len(section) : section[i] # <<>>

MarkedPositions(section) == {i \in 1..Len(section) : section[i] # <<>>}

IsNumeric(token) ==
    /\ token # <<>>
    /\ \A i \in 1..Len(token) : token[i] \in DigitChars

NonNumeric(token) == token # <<>> /\ ~IsNumeric(token)

HasNonNumeric == \E i \in 1..Len(Tokens) : NonNumeric(Tokens[i])

Range(seq) == {seq[i] : i \in 1..Len(seq)}

NonIntegerPreference == InvalidBallot("Pref not an int")
BothSectionsMarked == InvalidBallot("both valid")
NeitherSectionMarked == InvalidBallot("neither valid")

\* The marked tokens of a section are numerals carrying exactly 1..k, once each.
NumbersOneToK(section) ==
    LET P == MarkedPositions(section)
    IN  /\ \A i \in P : IsNumeric(section[i])
        /\ \A i, j \in P : i # j => parse_u32(section[i]) # parse_u32(section[j])
        /\ {parse_u32(section[i]) : i \in P} = 1..Cardinality(P)

PositionOf(section, n) ==
    CHOOSE i \in MarkedPositions(section) : parse_u32(section[i]) = n

\* The last position of a section whose token carries the number n.
LastPositionOf(section, n) ==
    CHOOSE i \in MarkedPositions(section) :
        /\ parse_u32(section[i]) = n
        /\ \A j \in MarkedPositions(section) : parse_u32(section[j]) = n => j <= i

RECURSIVE ConcatGroups(_, _)
ConcatGroups(positions, n) ==
    IF n > Len(positions) THEN <<>>
    ELSE groups[positions[n]].candidate_ids \o ConcatGroups(positions, n + 1)

RECURSIVE Ascending(_)
Ascending(S) ==
    IF S = {} THEN <<>>
    ELSE LET m == CHOOSE x \in S : \A y \in S : x <= y
         IN  <<m>> \o Ascending(S \ {m})

(***************************************************************************)
(* C1.  For every preference string, groups and candidateIds, decode       *)
(* completes with an ordered CandidateId list or a BallotParseError value: *)
(* it never aborts with an out-of-range access, whatever the token count.  *)
(***************************************************************************)
C1_DecodeNeverAborts ==
    \A c \in 1..Len(calls) : calls[c].out.kind \in {"Ok", "Err"}

(***************************************************************************)
(* C2.  With the first len(groups) tokens as the above-the-line section    *)
(* and the rest as the below-the-line section: both sections marked gives  *)
(* BothSectionsMarked, no token marked gives NeitherSectionMarked, the     *)
(* above-the-line algorithm runs only when above is marked and below is    *)
(* empty, the below-the-line algorithm only when below is marked and above *)
(* is empty.                                                               *)
(***************************************************************************)
C2_Classification ==
    \A c \in 1..Len(calls) :
        /\ Marked(AboveTokens) /\ Marked(BelowTokens)
              => calls[c].out = BothSectionsMarked
        /\ ~Marked(AboveTokens) /\ ~Marked(BelowTokens)
              => calls[c].out = NeitherSectionMarked
        /\ calls[c].arm = "above" => Marked(AboveTokens) /\ ~Marked(BelowTokens)
        /\ calls[c].arm = "below" => Marked(BelowTokens) /\ ~Marked(AboveTokens)

\* C2 restricted to strings with at least len(groups) tokens (it holds there).
C2_ClassificationInRange == Len(Tokens) >= NGroups => C2_Classification

(***************************************************************************)
(* C3, as claimed, for the calls that return: any non-empty, non-numeric   *)
(* token makes decode fail with NonIntegerPreference, whatever section it  *)
(* is in and whatever the other tokens are.                                *)
(***************************************************************************)
C3_NonIntegerWhateverTheRest ==
    \A c \in 1..Len(calls) :
        HasNonNumeric /\ calls[c].out.kind # "Panic"
            => calls[c].out = NonIntegerPreference

\* A numeric below-the-line token past candidateIds that comes before the
\* first non-numeric below-the-line token.
BelowIndexedPastEndFirst ==
    \E q \in 1..Len(BelowTokens) :
        /\ IsNumeric(BelowTokens[q])
        /\ q > Len(candidates)
        /\ \A p \in 1..q : ~NonNumeric(BelowTokens[p])

(***************************************************************************)
(* C3, amended.  A non-empty, non-numeric token makes decode fail with     *)
(* NonIntegerPreference when the section it is in is the only marked one;  *)
(* when both sections are marked decode fails with BothSectionsMarked      *)
(* instead.  Decode aborts, and returns nothing, when the string has fewer *)
(* tokens than there are groups or when a numeric below-the-line token     *)
(* past candidateIds precedes the first non-numeric one.                   *)
(***************************************************************************)
C3_NonIntegerInTheMarkedSection ==
    \A c \in 1..Len(calls) :
        HasNonNumeric =>
            calls[c].out =
                IF Len(Tokens) < NGroups THEN Panic
                ELSE IF Marked(AboveTokens) /\ Marked(BelowTokens) THEN BothSectionsMarked
                ELSE IF Marked(BelowTokens) /\ BelowIndexedPastEndFirst THEN Panic
                ELSE NonIntegerPreference

\* C3 witness: a below-the-line-only ballot with a numeral and a non-numeric
\* token has been decoded to NonIntegerPreference.
C3_Witness ==
    /\ Len(calls) > 0
    /\ calls[1].out = NonIntegerPreference
    /\ ~Marked(AboveTokens)
    /\ \E i, j \in 1..Len(BelowTokens) :
           NonNumeric(BelowTokens[i]) /\ IsNumeric(BelowTokens[j])

AboveOnlyOneToK ==
    /\ Marked(AboveTokens)
    /\ ~Marked(BelowTokens)
    /\ NumbersOneToK(AboveTokens)

AboveExpected ==
    ConcatGroups([n \in 1..Cardinality(MarkedPositions(AboveTokens)) |->
                      PositionOf(AboveTokens, n)], 1)

(***************************************************************************)
(* C4.  For any above-the-line-only string whose non-empty tokens number k *)
(* groups with the distinct numbers 1..k, decode succeeds and returns the  *)
(* concatenation of those groups' candidate_ids lists in ascending number  *)
(* order (token position g is groups[g]).                                  *)
(***************************************************************************)
C4_AboveConcatenation ==
    \A c \in 1..Len(calls) :
        AboveOnlyOneToK => calls[c].out = Ok(AboveExpected)

\* C4 restricted to strings with at least len(groups) tokens (it holds there).
C4_AboveConcatenationInRange == Len(Tokens) >= NGroups => C4_AboveConcatenation

BelowOnlyOneToK ==
    /\ ~Marked(AboveTokens)
    /\ Marked(BelowTokens)
    /\ NumbersOneToK(BelowTokens)
    /\ \A i \in MarkedPositions(BelowTokens) : i <= Len(candidates)

C6_BelowLaterOverwrites ==
    \A c \in 1..Len(calls) :
        calls[c].arm = "below" /\ calls[c].out.kind = "Ok" =>
            \A i, j \in MarkedPositions(BelowTokens) :
                i < j /\ parse_u32(BelowTokens[i]) = parse_u32(BelowTokens[j]) =>
                    /\ candidates[j] \in Range(calls[c].out.prefs)
                    /\ candidates[i] \notin Range(calls[c].out.prefs)

AboveRuns ==
    /\ Len(Tokens) >= NGroups
    /\ Marked(AboveTokens)
    /\ ~Marked(BelowTokens)
    /\ \A g \in MarkedPositions(AboveTokens) : IsNumeric(AboveTokens[g])

AboveRepeats ==
    \E g, h \in MarkedPositions(AboveTokens) :
        g < h /\ parse_u32(AboveTokens[g]) = parse_u32(AboveTokens[h])

AboveNumbers == {parse_u32(AboveTokens[g]) : g \in MarkedPositions(AboveTokens)}

(***************************************************************************)
(* C7.  In the above-the-line algorithm, when two non-empty tokens at      *)
(* group positions g < h carry the same preference number, the later group *)
(* overwrites the entry: the decoded ballot is, number by number in        *)
(* ascending order, the candidate list of the last group carrying that     *)
(* number, and the list of an earlier group carrying it is not emitted for *)
(* it ("1,1,," over [G1 = {1, 2}, G2 = {3}] gives [3]).                    *)
(***************************************************************************)
C7_AboveLaterOverwrites ==
    \A c \in 1..Len(calls) :
        AboveRuns /\ AboveRepeats =>
            calls[c].out =
                Ok(ConcatGroups([n \in 1..Cardinality(AboveNumbers) |->
                                    LastPositionOf(AboveTokens, Ascending(AboveNumbers)[n])], 1))

\* C7 witness: a decoded above-the-line ballot in which two groups with
\* different lists carry the same number, written "1" and "01".
C7_Witness ==
    /\ Len(calls) > 0
    /\ AboveRuns
    /\ \E g, h \in MarkedPositions(AboveTokens) :
           /\ g < h
           /\ AboveTokens[g] # AboveTokens[h]
           /\ parse_u32(AboveTokens[g]) = parse_u32(AboveTokens[h])
           /\ groups[g] # groups[h]
           /\ calls[1].out = Ok(groups[h].candidate_ids)

SenateRows(n) == {i \in 1..n : rows[i].ok /\ rows[i].nom_ty = "S"}

(***************************************************************************)
(* C8.  The candidate loader keeps only the rows whose nomination type is  *)
(* "S" and gives each kept row id = the count of previously accepted rows: *)
(* a dropped row does not affect the ids after it, so the ids of the       *)
(* result are exactly 0..n-1.                                              *)
(***************************************************************************)
C8_IdsCountAcceptedRows ==
    load_pc = "ok" =>
        /\ Len(result) = Cardinality(SenateRows(Len(rows)))
        /\ \A k \in 1..Len(result) : result[k].id = k - 1

(***************************************************************************)
(* C8, amended.  The candidate loader keeps only the rows whose nomination *)
(* type is "S", in file order, and gives each kept row id = the zero-based *)
(* position of the row among all the rows of the file, dropped rows        *)
(* counted: ids are distinct and increasing, and every dropped row raises  *)
(* the ids of the rows after it by one.                                    *)
(***************************************************************************)
C8_IdsAreRowPositions ==
    LET kept == Ascending(SenateRows(row_idx))
    IN  /\ Len(result) = Len(kept)
        /\ \A k \in 1..Len(result) : result[k].id = kept[k] - 1

\* C8 witness: a file was loaded in which a dropped row precedes a kept one.
C8_Witness ==
    /\ load_pc = "ok"
    /\ \E i, j \in 1..Len(rows) : i < j /\ rows[i].nom_ty = "H" /\ rows[j].nom_ty = "S"
    /\ \E k \in 1..Len(result) : result[k].id # k - 1

(***************************************************************************)
(* C9.  The stream adapter produces exactly one outcome per input record,  *)
(* in input order: InputError for a record error, else the decode result   *)
(* of the record's preferences; no record stops the stream, every later    *)
(* record still yields its own outcome.                                    *)
(***************************************************************************)
C9_OneOutcomePerRecord ==
    stream_pc # "iter" =>
        /\ Len(outputs) = Len(records)
        /\ \A n \in 1..Len(outputs) :
               IF records[n].ok
               THEN outputs[n] \in pref_string_to_ballot(records[n].preferences, groups, candidates)
               ELSE outputs[n] = InputError

\* C9 for the outcomes produced before the stream ends or unwinds (it holds there).
C9_OutcomesInOrder ==
    /\ Len(outputs) <= Len(records)
    /\ \A n \in 1..Len(outputs) :
           IF records[n].ok
           THEN outputs[n] \in pref_string_to_ballot(records[n].preferences, groups, candidates)
           ELSE outputs[n] = InputError

(***************************************************************************)
(* C10.  decode is referentially transparent: two calls with identical     *)
(* arguments return identical results, also for ballots with repeated      *)
(* preference numbers.                                                     *)
(***************************************************************************)
C10_SameArgumentsSameResult ==
    \A c, d \in 1..Len(calls) : calls[c].out = calls[d].out

=============================================================================
